---- MODULE Spec2Model ----
(***************************************************************************)
(* scrapetools.download: a concurrency-bounded batch downloader.           *)
(*                                                                         *)
(* download_all / _download_all (the batch call) and download_one /        *)
(* _download_one (one streaming transfer) of src/scrapetools/download.py,  *)
(* as a state machine.  One behaviour is one call of download_one or of    *)
(* download_all / _download_all; the event loop's interleaving of the      *)
(* transfer tasks is the interleaving of the per-transfer actions.         *)
(***************************************************************************)
EXTENDS Naturals, Sequences, FiniteSets

(* ------------------------------ bounds --------------------------------- *)

\* urls of a batch whose transfers run concurrently: 1..MaxUrls
MaxUrls == 2
\* urls of the largest batch; it is above the 4 of line 128
MaxBatch == 5
\* largest max_concurrent the caller passes
MaxK == 2
\* non-empty chunks the servers deliver, in total, during one batch call
MaxChunks == 1
\* non-empty chunks the server delivers during one download_one call
MaxOneChunks == 2
\* nested byte-progress bars one transfer can stack before Python's
\* recursion limit ends the self-recursion of _download_one
MaxBars == 2

(* -------------------------- program constants -------------------------- *)

CHUNK_SIZE == 2048

\* the urls a caller can name
Urls == 1 .. MaxBatch

\* Python's None / True / False for the tri-state flags
Tri == {"None", "True", "False"}

Truthy(v) == v = "True"

\* x or False, as Python evaluates it
OrFalse(x) == IF Truthy(x) THEN x ELSE "False"

\* the destination argument: absent, an existing directory, anything else
PathKinds == {"None", "dir", "file"}

\* os.path.isdir
IsDir(p) == p = "dir"

\* lengths a non-empty chunk returned by read(CHUNK_SIZE) can have
ChunkLens == {1, CHUNK_SIZE}

\* Content-Length as the server may advertise it: not at all, 0, positive
ContentLengths == {"None", "0", "5000"}

\* the transport sessions: the caller's, the one the batch call opens,
\* and the one transfer u opens for itself ("t1", "t2", ...)
OwnSession(u) == <<"own", u>>

BatchSession == <<"batch", 0>>

CallerSession == <<"caller", 0>>

NoSession == <<"None", 0>>

Sessions == {CallerSession, BatchSession} \cup {OwnSession(u) : u \in Urls}

\* the other scoped resources a with-block manages
PbarRes == <<"pbar", 0>>

ResponseRes == <<"response", 0>>

FileRes == <<"file", 0>>

VARIABLES
    entry,        \* "download_one" | "download_all" | "_download_all": the function called
    given,        \* the urls argument as the caller passed it
    urls,         \* the local urls: the argument, a mapping url -> path once normalized
    path,         \* the path argument
    session,      \* the session argument / local of the batch call
    show_progress,     \* the show_progress argument
    show_sub_progress, \* the show_sub_progress argument / local
    max_concurrent,    \* the max_concurrent argument
    pc,           \* position of the call
    sOpened,      \* per session: times opened
    sClosed,      \* per session: times closed
    semaphore,    \* value of the asyncio.Semaphore (free permits); 0 before it exists
    pbar,         \* the overall tqdm: [state, total, n]
    tpc,          \* per url: position of its transfer task
    tsession,     \* per url: the session its _download_one uses
    tshow,        \* per url: the show_progress its download_one was given
    tbar,         \* per url: its byte tqdm: [made, total, n] (made: how many were created)
    got,          \* per url: the chunks read(CHUNK_SIZE) returned, in order
    file,         \* per url: the destination file: [state, data]
    frames,       \* the with-blocks the batch call is inside, outermost first
    tframes,      \* per url: the with-blocks its _download_one is inside
    closed        \* per url: the scoped resources its _download_one closed, in order

vars == <<entry, given, urls, path, session, show_progress, show_sub_progress,
          max_concurrent, pc, sOpened, sClosed, semaphore, pbar,
          tpc, tsession, tshow, tbar, got, file, frames, tframes, closed>>

argVars == <<entry, given, path, show_progress, max_concurrent>>

callVars == <<urls, session, show_sub_progress, pc, semaphore, pbar, frames>>

sessVars == <<sOpened, sClosed>>

taskVars == <<tpc, tsession, tshow, tbar, got, file, tframes, closed>>

(* ------------------------------ helpers -------------------------------- *)

\* the urls argument, as given: a list (sequence of urls) or a dict
IsDict(u) == u.kind = "dict"

\* one key per position of the list
NormalizePositions(list, p) == [u \in DOMAIN list |-> p]

\* {url: path for url in urls}: one key per distinct url of the list
Normalize(list, p) == [u \in {list[i] : i \in DOMAIN list} |-> p]

\* len(urls) of the normalized mapping
Total == Cardinality(DOMAIN urls.map)

IsOpen(s) == sOpened[s] > sClosed[s]

NoBar == [made |-> 0, total |-> "None", n |-> 0]

NoFile == [state |-> "absent", data |-> <<>>]

NoPbar == [state |-> "none", total |-> 0, n |-> 0]

RECURSIVE SumSeq(_)
SumSeq(s) == IF s = <<>> THEN 0 ELSE Head(s) + SumSeq(Tail(s))

\* non-empty chunks delivered so far, over all transfers
RECURSIVE Delivered(_)
Delivered(S) ==
    IF S = {} THEN 0
    ELSE LET u == CHOOSE x \in S : TRUE
         IN  Len(got[u]) + Delivered(S \ {u})

\* the servers stop sending data after this many non-empty chunks
ChunkBudget == IF entry = "download_one" THEN MaxOneChunks ELSE MaxChunks

RECURSIVE Reverse(_)
Reverse(s) == IF s = <<>> THEN <<>> ELSE Append(Reverse(Tail(s)), Head(s))

Has(s, x) == \E i \in DOMAIN s : s[i] = x

Count(s, x) == Cardinality({i \in DOMAIN s : s[i] = x})

EmptyMap == [u \in {} |-> "None"]

(* ------------------------------ inputs --------------------------------- *)

\* lists of urls, duplicates included; urls are numbered in order of first
\* appearance (the first is 1, a new one is the next unused number)
FirstAppearance(s) ==
    \A i \in DOMAIN s :
        \/ \E j \in 1 .. (i - 1) : s[j] = s[i]
        \/ s[i] = Cardinality({s[j] : j \in 1 .. (i - 1)}) + 1

UrlLists ==
    {s \in UNION {[1 .. n -> 1 .. MaxUrls] : n \in 0 .. MaxUrls} : FirstAppearance(s)}

\* dicts url -> path: the first n urls, each with a full file path; path is
\* not passed with a dict (download_all would not read it)
UrlDicts == {[u \in 1 .. n |-> "file"] : n \in 0 .. MaxUrls}

ListArg(s) == [kind |-> "list", list |-> s, map |-> EmptyMap]

DictArg(m) == [kind |-> "dict", list |-> <<>>, map |-> m]

StrArg == [kind |-> "str", list |-> <<1>>, map |-> EmptyMap]

SessionArgs == {NoSession, CallerSession}

InitTasks ==
    /\ tpc = [u \in Urls |-> "idle"]
    /\ tsession = [u \in Urls |-> NoSession]
    /\ tshow = [u \in Urls |-> "False"]
    /\ tbar = [u \in Urls |-> NoBar]
    /\ got = [u \in Urls |-> <<>>]
    /\ file = [u \in Urls |-> NoFile]
    /\ tframes = [u \in Urls |-> <<>>]
    /\ closed = [u \in Urls |-> <<>>]

\* the caller's session, when there is one, was opened by the caller
InitCommon ==
    /\ session \in SessionArgs
    /\ show_progress \in Tri
    /\ sOpened = [s \in Sessions |-> IF s = session THEN 1 ELSE 0]
    /\ sClosed = [s \in Sessions |-> 0]
    /\ semaphore = 0
    /\ pbar = NoPbar
    /\ frames = <<>>
    /\ pc = "call"
    /\ InitTasks

\* download_one(url, path, session, show_progress)
InitOne ==
    /\ entry = "download_one"
    /\ given = StrArg
    /\ urls = given
    /\ path \in PathKinds
    /\ show_sub_progress = "None"
    /\ max_concurrent = 1
    /\ InitCommon

\* download_all(urls, path, session, show_progress, max_concurrent)
InitAll ==
    /\ entry = "download_all"
    /\ \/ given \in {ListArg(s) : s \in UrlLists} /\ path \in PathKinds
       \/ given \in {DictArg(m) : m \in UrlDicts} /\ path = "None"
    /\ urls = given
    /\ show_sub_progress = "None"
    /\ max_concurrent \in 1 .. MaxK
    /\ InitCommon

\* _download_all(urls, ..., show_sub_progress) called with the flag set
InitInner ==
    /\ entry = "_download_all"
    /\ given \in {DictArg(m) : m \in UrlDicts}
    /\ urls = given
    /\ path = "None"
    /\ show_sub_progress \in {"True", "False"}
    /\ max_concurrent \in 1 .. MaxK
    /\ InitCommon

Init == InitOne \/ InitAll

(* ------------------- download_all / _download_all ---------------------- *)

\* no check of path
PathAcceptedAlways(p) == TRUE

\* the assertion of download_all: not path or os.path.isdir(path)
PathAccepted(p) == p = "None" \/ IsDir(p)

\* download_all: the check of path and the normalization of a non-dict urls.
\* It is a plain function: a failed assertion is raised at the call, before
\* the coroutine _download_all exists.
download_all ==
    /\ pc = "call"
    /\ entry = "download_all"
    /\ IF ~IsDict(urls) /\ ~PathAccepted(path)
       THEN pc' = "raised" /\ UNCHANGED urls
       ELSE /\ pc' = "top"
            /\ urls' = IF IsDict(urls) THEN urls
                       ELSE DictArg(Normalize(urls.list, path))
    /\ UNCHANGED <<argVars, session, show_sub_progress, semaphore, pbar, frames,
                   sessVars, taskVars>>

\* _download_all called directly: the coroutine starts
download_all_inner ==
    /\ pc = "call"
    /\ entry = "_download_all"
    /\ pc' = "top"
    /\ UNCHANGED <<argVars, urls, session, show_sub_progress, semaphore, pbar,
                   frames, sessVars, taskVars>>

\* not pbar, for the overall bar: None, or a tqdm whose total is 0
NotPbar(b) == b.state = "none" \/ b.total = 0

\* the same with the limit one higher
SubProgressAbove5(total, sub, show) ==
    IF total > 5 THEN OrFalse(sub)
    ELSE IF show = "None" THEN "True" ELSE show

\* lines 128-131: the per-file flag handed to the transfers
SubProgress(total, sub, show) ==
    IF total > 4 THEN OrFalse(sub)
    ELSE IF show = "None" THEN "True" ELSE show

\* lines 118-140: no url, leave early; else open the overall bar and re-enter
AllProgress ==
    /\ pc = "top"
    /\ Truthy(show_progress) /\ NotPbar(pbar)
    /\ IF Total = 0
       THEN /\ pc' = "returned"
            /\ UNCHANGED <<pbar, show_sub_progress, frames>>
       ELSE /\ pbar' = [state |-> "live", total |-> Total, n |-> 0]
            /\ show_sub_progress' = SubProgress(Total, show_sub_progress, show_progress)
            /\ frames' = Append(frames, PbarRes)
            /\ pc' = "top"
    /\ UNCHANGED <<argVars, urls, session, semaphore, sessVars, taskVars>>

\* a session opened and never scoped: nothing closes it
AllSessionUnscoped ==
    /\ pc = "top"
    /\ ~(Truthy(show_progress) /\ NotPbar(pbar))
    /\ session = NoSession
    /\ session' = BatchSession
    /\ sOpened' = [sOpened EXCEPT ![BatchSession] = @ + 1]
    /\ UNCHANGED <<argVars, urls, show_sub_progress, pc, semaphore, pbar, frames,
                   sClosed, taskVars>>

\* lines 142-145: no session given, open one and re-enter
AllSession ==
    /\ pc = "top"
    /\ ~(Truthy(show_progress) /\ NotPbar(pbar))
    /\ session = NoSession
    /\ session' = BatchSession
    /\ sOpened' = [sOpened EXCEPT ![BatchSession] = @ + 1]
    /\ frames' = Append(frames, session')
    /\ UNCHANGED <<argVars, urls, show_sub_progress, pc, semaphore, pbar,
                   sClosed, taskVars>>

\* the session not handed on: session=None
TransferSessionNone == NoSession

\* line 153: the session every download_one of the batch is given
TransferSession == session

\* lines 147-162: the semaphore, and one task per entry of urls handed to gather
AllDispatch ==
    /\ pc = "top"
    /\ ~(Truthy(show_progress) /\ NotPbar(pbar))
    /\ session # NoSession
    /\ semaphore' = max_concurrent
    /\ tpc' = [u \in Urls |-> IF u \in DOMAIN urls.map THEN "waiting" ELSE "idle"]
    /\ tsession' = [u \in Urls |-> IF u \in DOMAIN urls.map THEN TransferSession
                                   ELSE NoSession]
    /\ tshow' = [u \in Urls |-> IF u \in DOMAIN urls.map THEN show_sub_progress
                                ELSE "False"]
    /\ pc' = "gather"
    /\ UNCHANGED <<argVars, urls, session, show_sub_progress, pbar, frames,
                   sessVars, tbar, got, file, tframes, closed>>

\* gather without return_exceptions: the first exception ends the wait
GatheredOrRaised ==
    \/ \A u \in DOMAIN urls.map : tpc[u] \in {"done", "failed"}
    \/ \E u \in DOMAIN urls.map : tpc[u] = "failed"

\* gather(..., return_exceptions=True) is done when every task has ended,
\* by return or by exception
Gathered == \A u \in DOMAIN urls.map : tpc[u] \in {"done", "failed"}

\* the overall bar closed and the call returning without waiting for gather
AllGatheredEarly ==
    /\ pc = "gather"
    /\ pc' = "unwind"
    /\ UNCHANGED <<argVars, urls, session, show_sub_progress, semaphore, pbar,
                   frames, sessVars, taskVars>>

\* gather awaited: the call goes on when every task has ended
AllGathered ==
    /\ pc = "gather"
    /\ Gathered
    /\ pc' = "unwind"
    /\ UNCHANGED <<argVars, urls, session, show_sub_progress, semaphore, pbar,
                   frames, sessVars, taskVars>>

\* leaving the innermost with-block of _download_all
AllUnwind ==
    /\ pc = "unwind"
    /\ frames # <<>>
    /\ LET f == frames[Len(frames)]
       IN  /\ frames' = SubSeq(frames, 1, Len(frames) - 1)
           /\ sClosed' = IF f \in Sessions THEN [sClosed EXCEPT ![f] = @ + 1]
                         ELSE sClosed
           /\ pbar' = IF f = PbarRes THEN [pbar EXCEPT !.state = "closed"] ELSE pbar
    /\ UNCHANGED <<argVars, urls, session, show_sub_progress, pc, semaphore,
                   sOpened, taskVars>>

AllReturn ==
    /\ pc = "unwind"
    /\ frames = <<>>
    /\ pc' = "returned"
    /\ UNCHANGED <<argVars, urls, session, show_sub_progress, semaphore, pbar,
                   frames, sessVars, taskVars>>

(* --------------------- download_one / _download_one -------------------- *)

\* download_one called by the caller: the coroutine _download_one(url 1) starts
download_one ==
    /\ pc = "call"
    /\ entry = "download_one"
    /\ pc' = "one"
    /\ tpc' = [tpc EXCEPT ![1] = "top"]
    /\ tsession' = [tsession EXCEPT ![1] = session]
    /\ tshow' = [tshow EXCEPT ![1] = show_progress]
    /\ UNCHANGED <<argVars, urls, session, show_sub_progress, semaphore, pbar,
                   frames, sessVars, tbar, got, file, tframes, closed>>

\* lines 156-157: the overall bar is advanced by a task that got past its
\* async-with block, when show_progress
Advances(ok) == ok /\ Truthy(show_progress)

\* the with-blocks left outermost first
UnwoundInOrder(fr) == fr

\* leaving nested with-blocks closes what they manage, innermost first
Unwound(fr) == Reverse(fr)

\* an update that overwrites the count instead of adding to it
AdvancedLost(b) == [b EXCEPT !.n = 1]

\* line 157: pbar.update(1)
Advanced(b) == [b EXCEPT !.n = @ + 1]

\* the permit given back twice
ReleasedTwice(ok) == semaphore + 2

\* the permit given back on return only
ReleasedOnReturn(ok) == IF ok THEN semaphore + 1 ELSE semaphore

\* line 150: leaving async with semaphore gives the permit back, on return
\* and on exception alike
Released(ok) == semaphore + 1

\* every with-block of the transfer closes what it manages, and so does a
\* final close of the session in use, owned or borrowed
SessionClosesAlways(u, s) ==
    Count(tframes[u], s) + (IF s = tsession[u] /\ ~Has(tframes[u], s) THEN 1 ELSE 0)

\* how often leaving the with-blocks of transfer u closes session s
SessionCloses(u, s) == Count(tframes[u], s)

\* _download_one ends, by return (ok) or by exception: every with-block it is
\* inside is left, innermost first.  In a batch this is also the end of
\* bound_download_one's async-with (the permit goes back) and, if no exception
\* is passing, of bound_download_one itself.
Exit(u, ok) ==
    /\ tpc' = [tpc EXCEPT ![u] = IF ok THEN "done" ELSE "failed"]
    /\ closed' = [closed EXCEPT ![u] = @ \o Unwound(tframes[u])]
    /\ tframes' = [tframes EXCEPT ![u] = <<>>]
    /\ file' = IF Has(tframes[u], FileRes)
               THEN [file EXCEPT ![u].state = "closed"] ELSE file
    /\ sClosed' = [s \in Sessions |-> sClosed[s] + SessionCloses(u, s)]
    /\ IF entry = "download_one"
       THEN /\ pc' = IF ok THEN "returned" ELSE "raised"
            /\ UNCHANGED <<semaphore, pbar>>
       ELSE /\ semaphore' = Released(ok)
            /\ pbar' = IF Advances(ok) THEN Advanced(pbar) ELSE pbar
            /\ UNCHANGED pc

\* a gate that admits every task at once
AcquireUnbounded(u) ==
    /\ tpc[u] = "waiting"
    /\ tpc' = [tpc EXCEPT ![u] = "top"]
    /\ UNCHANGED <<argVars, callVars, sessVars, tsession, tshow, tbar, got, file,
                   tframes, closed>>

\* line 150: async with semaphore
Acquire(u) ==
    /\ tpc[u] = "waiting"
    /\ semaphore > 0
    /\ semaphore' = semaphore - 1
    /\ tpc' = [tpc EXCEPT ![u] = "top"]
    /\ UNCHANGED <<argVars, urls, session, show_sub_progress, pc, pbar, frames,
                   sessVars, tsession, tshow, tbar, got, file, tframes, closed>>

\* lines 59-62: no session given, open one and re-enter
OneSession(u) ==
    /\ tpc[u] = "top"
    /\ tsession[u] = NoSession
    /\ tsession' = [tsession EXCEPT ![u] = OwnSession(u)]
    /\ sOpened' = [sOpened EXCEPT ![OwnSession(u)] = @ + 1]
    /\ tframes' = [tframes EXCEPT ![u] = Append(@, OwnSession(u))]
    /\ UNCHANGED <<argVars, callVars, sClosed, tpc, tshow, tbar, got, file, closed>>

\* line 65: session.get(url) is issued and awaited
OneGet(u) ==
    /\ tpc[u] = "top"
    /\ tsession[u] # NoSession
    /\ ~Has(tframes[u], ResponseRes)
    /\ tpc' = [tpc EXCEPT ![u] = "get"]
    /\ UNCHANGED <<argVars, callVars, sessVars, tsession, tshow, tbar, got, file,
                   tframes, closed>>

\* lines 65-67: the response arrives; re-enter with it
OneResponse(u) ==
    /\ tpc[u] = "get"
    /\ tpc' = [tpc EXCEPT ![u] = "top"]
    /\ tframes' = [tframes EXCEPT ![u] = Append(@, ResponseRes)]
    /\ UNCHANGED <<argVars, callVars, sessVars, tsession, tshow, tbar, got, file,
                   closed>>

\* line 65: the request fails
OneGetFails(u) ==
    /\ tpc[u] = "get"
    /\ Exit(u, FALSE)
    /\ UNCHANGED <<argVars, urls, session, show_sub_progress, frames, sOpened,
                   tsession, tshow, tbar, got>>

\* _download_one is past lines 59-67: it has a session and a response
HasResponse(u) == tpc[u] = "top" /\ Has(tframes[u], ResponseRes)

\* not pbar, for the byte bar (line 69): True for None and for a tqdm whose
\* total is 0 (the falsy zero-total bar that lines 121-124 avoid for the
\* overall bar); a tqdm made with total=None and no iterable has no truth
\* value: bool() of it raises TypeError
NotBar(b) == b.made = 0 \/ b.total = "0"

BarHasNoTruthValue(b) == b.made > 0 /\ b.total = "None"

\* lines 69-80: open the byte bar with the declared total and re-enter
OneProgress(u) ==
    /\ HasResponse(u)
    /\ Truthy(tshow[u])
    /\ ~BarHasNoTruthValue(tbar[u])
    /\ NotBar(tbar[u])
    /\ tbar[u].made < MaxBars
    /\ \E cl \in ContentLengths :
          /\ tbar[u].made > 0 => cl = tbar[u].total
          /\ tbar' = [tbar EXCEPT ![u] = [made |-> @.made + 1, total |-> cl, n |-> 0]]
    /\ tframes' = [tframes EXCEPT ![u] = Append(@, PbarRes)]
    /\ UNCHANGED <<argVars, callVars, sessVars, tpc, tsession, tshow, got, file,
                   closed>>

\* line 69 raises: not pbar of a bar with total None (TypeError), or the
\* recursion of a bar with total 0 reaching the recursion limit
OneProgressFails(u) ==
    /\ HasResponse(u)
    /\ Truthy(tshow[u])
    /\ \/ BarHasNoTruthValue(tbar[u])
       \/ NotBar(tbar[u]) /\ tbar[u].made >= MaxBars
    /\ Exit(u, FALSE)
    /\ UNCHANGED <<argVars, urls, session, show_sub_progress, frames, sOpened,
                   tsession, tshow, tbar, got>>

\* lines 82-83 are reached: no bar is wanted, or the bar is truthy
AtOpen(u) ==
    /\ HasResponse(u)
    /\ ~(Truthy(tshow[u]) /\ (BarHasNoTruthValue(tbar[u]) \/ NotBar(tbar[u])))

\* lines 82-83: the destination is opened for writing (created or truncated)
OneOpen(u) ==
    /\ AtOpen(u)
    /\ file' = [file EXCEPT ![u] = [state |-> "open", data |-> <<>>]]
    /\ tframes' = [tframes EXCEPT ![u] = Append(@, FileRes)]
    /\ tpc' = [tpc EXCEPT ![u] = "reading"]
    /\ UNCHANGED <<argVars, callVars, sessVars, tsession, tshow, tbar, got, closed>>

\* lines 82-83: the destination cannot be resolved or opened
OneOpenFails(u) ==
    /\ AtOpen(u)
    /\ Exit(u, FALSE)
    /\ UNCHANGED <<argVars, urls, session, show_sub_progress, frames, sOpened,
                   tsession, tshow, tbar, got>>

\* pbar.update() without the length: one per chunk
UpdatedByOne(b, show, n) == IF Truthy(show) THEN [b EXCEPT !.n = @ + 1] ELSE b

\* lines 88-89: the bar after a chunk of n bytes
Updated(b, show, n) == IF Truthy(show) THEN [b EXCEPT !.n = @ + n] ELSE b

\* lines 85-90: a non-empty chunk is read; the bar is advanced and the chunk
\* is written
OneChunk(u) ==
    /\ tpc[u] = "reading"
    /\ Delivered(Urls) < ChunkBudget
    /\ \E n \in ChunkLens :
          /\ got' = [got EXCEPT ![u] = Append(@, n)]
          /\ tbar' = [tbar EXCEPT ![u] = Updated(@, tshow[u], n)]
          /\ file' = [file EXCEPT ![u].data = Append(@, n)]
    /\ UNCHANGED <<argVars, callVars, sessVars, tpc, tsession, tshow, tframes,
                   closed>>

\* lines 85-90: a non-empty chunk is read, the bar is advanced, and
\* fd.write raises
OneWriteFails(u) ==
    /\ tpc[u] = "reading"
    /\ Delivered(Urls) < ChunkBudget
    /\ \E n \in ChunkLens :
          /\ got' = [got EXCEPT ![u] = Append(@, n)]
          /\ tbar' = [tbar EXCEPT ![u] = Updated(@, tshow[u], n)]
    /\ Exit(u, FALSE)
    /\ UNCHANGED <<argVars, urls, session, show_sub_progress, frames, sOpened,
                   tsession, tshow>>

\* lines 85-87: the empty chunk ends the loop; _download_one returns
OneEnd(u) ==
    /\ tpc[u] = "reading"
    /\ Exit(u, TRUE)
    /\ UNCHANGED <<argVars, urls, session, show_sub_progress, frames, sOpened,
                   tsession, tshow, tbar, got>>

\* line 85: the read raises
OneReadFails(u) ==
    /\ tpc[u] = "reading"
    /\ Exit(u, FALSE)
    /\ UNCHANGED <<argVars, urls, session, show_sub_progress, frames, sOpened,
                   tsession, tshow, tbar, got>>

(* --------------------------- specification ----------------------------- *)

Transfer(u) ==
    \/ Acquire(u)
    \/ OneSession(u)
    \/ OneGet(u)
    \/ OneResponse(u)
    \/ OneGetFails(u)
    \/ OneProgress(u)
    \/ OneProgressFails(u)
    \/ OneOpen(u)
    \/ OneOpenFails(u)
    \/ OneChunk(u)
    \/ OneWriteFails(u)
    \/ OneEnd(u)
    \/ OneReadFails(u)

Call ==
    \/ download_one
    \/ download_all
    \/ AllProgress
    \/ AllSession
    \/ AllDispatch
    \/ AllGathered
    \/ AllUnwind
    \/ AllReturn

Next == Call \/ \E u \in Urls : Transfer(u)

Spec == Init /\ [][Next]_vars

\* the event loop runs some task while one can run, and every awaited
\* request and read returns (with data, an empty chunk or an error)
Fairness == WF_vars(Next)

FairSpec == Spec /\ Fairness

\* batches of up to MaxBatch distinct urls, given as a list to download_all
\* or as a dict to _download_all with show_sub_progress set, their transfers
\* admitted one at a time
InitBig ==
    /\ \E n \in 0 .. MaxBatch :
          \/ /\ entry = "download_all"
             /\ given = ListArg([i \in 1 .. n |-> i])
             /\ show_sub_progress = "None"
          \/ /\ entry = "_download_all"
             /\ given = DictArg([u \in 1 .. n |-> "file"])
             /\ show_sub_progress \in {"True", "False"}
    /\ urls = given
    /\ path = "None"
    /\ max_concurrent = 1
    /\ InitCommon

\* the steps of a transfer of such a batch: it is given a session, its
\* request may fail, its destination opens and its body is empty
BatchTransfer(u) ==
    \/ Acquire(u)
    \/ OneGet(u)
    \/ OneResponse(u)
    \/ OneGetFails(u)
    \/ OneProgress(u)
    \/ OneProgressFails(u)
    \/ OneOpen(u)
    \/ OneEnd(u)

NextBig ==
    \/ download_all
    \/ download_all_inner
    \/ AllProgress
    \/ AllSession
    \/ AllDispatch
    \/ AllGathered
    \/ AllUnwind
    \/ AllReturn
    \/ \E u \in Urls : BatchTransfer(u)

SpecBig == InitBig /\ [][NextBig]_vars

\* the same, with _download_all also called directly with show_sub_progress set
InitDirect == Init \/ InitInner

NextDirect == Next \/ download_all_inner

SpecDirect == InitDirect /\ [][NextDirect]_vars

(* ------------------------------- claims -------------------------------- *)

Entries == DOMAIN urls.map

Terminal(u) == tpc[u] \in {"done", "failed"}

\* transfer u is executing its transfer body: request issued or body being
\* streamed, not yet ended
InBody(u) == tpc[u] \in {"top", "get", "reading"}

Running == {u \in Urls : InBody(u)}

Min(a, b) == IF a <= b THEN a ELSE b

Completed == pc \in {"returned", "raised"}

\* C1: in a batch call over N urls with max_concurrent = K, the transfers
\* executing their body are never more than min(K, N); while the gate exists
\* the permits held are exactly those of the executing transfers, between 0
\* and K.
C1_GateBound ==
    entry = "download_all" =>
        /\ Cardinality(Running) <= Min(max_concurrent, Total)
        /\ semaphore <= max_concurrent
        /\ pc \in {"gather", "unwind"} =>
               semaphore + Cardinality(Running) = max_concurrent

\* C1 witness: all K permits are held and another transfer waits for one
C1_Witness ==
    /\ entry = "download_all"
    /\ pc = "gather"
    /\ Cardinality(Running) = max_concurrent
    /\ semaphore = 0
    /\ \E u \in Entries : tpc[u] = "waiting"

\* C2: when a batch call with progress reporting over N >= 1 entries
\* completes, the overall counter equals N, whichever transfers failed.
C2_OverallCountsAll ==
    (entry = "download_all" /\ pc = "returned" /\ Truthy(show_progress) /\ Total >= 1)
        => pbar.n = Total

\* C3: a failing transfer fails neither a sibling nor the batch call: the call
\* raises only at the argument check, before anything is dispatched; once
\* gather is over every entry's transfer has ended, and each one that did not
\* fail has closed a file holding every chunk it received.
C3_FaultIsolation ==
    entry = "download_all" =>
        /\ pc = "raised" => \A u \in Urls : tpc[u] = "idle"
        /\ pc \in {"unwind", "returned"} =>
               \A u \in Entries :
                   /\ Terminal(u)
                   /\ tpc[u] = "done" =>
                          file[u].state = "closed" /\ file[u].data = got[u]

\* C3 witness: the call returned, one transfer failed, a sibling wrote its file
C3_Witness ==
    /\ entry = "download_all"
    /\ pc = "returned"
    /\ \E u, v \in Entries :
          /\ tpc[u] = "failed"
          /\ tpc[v] = "done"
          /\ file[v].data # <<>>
          /\ file[v].data = got[v]

\* C4: under a fair event loop every call eventually completes with no
\* transfer left waiting for a permit or in flight: every waiting transfer
\* got its permit, every dispatched transfer ended, and no state short of
\* completion is a deadlock.
C4_Completes ==
    <>(Completed /\ \A u \in Urls : tpc[u] \in {"idle", "done", "failed"})

\* C4 witness: a batch with more entries than permits completed although a
\* transfer failed
C4_Witness ==
    /\ entry = "download_all"
    /\ pc = "returned"
    /\ max_concurrent < Total
    /\ \E u \in Entries : tpc[u] = "failed"
    /\ \A u \in Entries : Terminal(u)

\* C5: the batch call does not go on past gather, close the overall bar or
\* return while a dispatched transfer waits or is in flight; when it has
\* returned every entry's transfer has ended.
C5_CompletesLast ==
    entry = "download_all" =>
        /\ (pc \in {"unwind", "returned"} \/ pbar.state = "closed") =>
               \A u \in Urls : tpc[u] \notin {"waiting", "top", "get", "reading"}
        /\ pc = "returned" => \A u \in Entries : Terminal(u)

\* C5 witness: a batch of two returned with its overall bar closed
C5_Witness ==
    /\ entry = "download_all"
    /\ pc = "returned"
    /\ pbar.state = "closed"
    /\ Total >= 2
    /\ pbar.n >= 1

OwnedSessions == Sessions \ {CallerSession}

\* C6: a session the call opened itself is opened once, closed at most once,
\* closed when the call has completed (by return or by exception), closed
\* only when every transfer of the batch has ended, and no transfer awaits a
\* request or a chunk on a session that is not open.
C6_OwnedSessionReleased ==
    /\ \A s \in OwnedSessions : sOpened[s] <= 1 /\ sClosed[s] <= sOpened[s]
    /\ Completed => \A s \in OwnedSessions : sClosed[s] = sOpened[s]
    /\ \A u \in Urls : tpc[u] \in {"get", "reading"} => IsOpen(tsession[u])
    /\ sClosed[BatchSession] > 0 => \A u \in Entries : Terminal(u)

\* C6 witness: the batch opened its session, a transfer failed, the call
\* returned with the session closed once
C6_Witness ==
    /\ pc = "returned"
    /\ sOpened[BatchSession] = 1
    /\ sClosed[BatchSession] = 1
    /\ \E u \in Entries : tpc[u] = "failed"

\* C7: the caller's session is never closed by the call; it is open when the
\* call completes.
C7_BorrowedSessionKept ==
    /\ sClosed[CallerSession] = 0
    /\ (Completed /\ sOpened[CallerSession] = 1) => IsOpen(CallerSession)

\* C7 witness: a batch given the caller's session returned after a failure
\* and a success, the session still open
C7_Witness ==
    /\ entry = "download_all"
    /\ pc = "returned"
    /\ session = CallerSession
    /\ IsOpen(CallerSession)
    /\ \E u, v \in Entries : tpc[u] = "failed" /\ tpc[v] = "done"

\* C8: in a batch call no transfer opens a session of its own; at most one
\* session exists (the caller's, or the one the batch opened), and once the
\* transfers are dispatched exactly one does and every transfer uses it.
C8_OneSharedSession ==
    entry = "download_all" =>
        /\ \A u \in Urls : sOpened[OwnSession(u)] = 0
        /\ sOpened[CallerSession] + sOpened[BatchSession] <= 1
        /\ pc \in {"gather", "unwind"} =>
               /\ session # NoSession
               /\ sOpened[CallerSession] + sOpened[BatchSession] = 1
               /\ \A u \in Entries : tsession[u] = session

\* C8 witness: two transfers have requests in flight on the batch's session
C8_Witness ==
    /\ entry = "download_all"
    /\ pc = "gather"
    /\ session = BatchSession
    /\ \E u, v \in Entries :
          u # v /\ tpc[u] = "get" /\ tpc[v] = "get" /\ tsession[u] = tsession[v]

\* nothing has been done: no session opened by the call, no gate, no task, no
\* request, no file, no progress display
Untouched ==
    /\ \A s \in OwnedSessions : sOpened[s] = 0
    /\ semaphore = 0
    /\ frames = <<>>
    /\ pbar.state = "none"
    /\ \A u \in Urls :
          tpc[u] = "idle" /\ file[u].state = "absent" /\ tbar[u].made = 0

\* C9: download_all with a list of 2 or more urls and a path that is not a
\* directory raises at the call and nothing is done.
C9_RejectsBeforeWork ==
    (/\ entry = "download_all"
     /\ given.kind = "list"
     /\ Len(given.list) >= 2
     /\ path # "None"
     /\ ~IsDir(path))
        => pc \in {"call", "raised"} /\ Untouched

\* C9 witness: the call with two distinct urls and a file path has raised
C9_Witness ==
    /\ entry = "download_all"
    /\ pc = "raised"
    /\ given.kind = "list"
    /\ Cardinality({given.list[i] : i \in DOMAIN given.list}) >= 2
    /\ path = "file"

\* number of entries of the urls argument as passed
GivenCount ==
    IF given.kind = "dict" THEN Cardinality(DOMAIN given.map) ELSE Len(given.list)

\* C10: a batch call with empty input does nothing, whatever show_progress
\* and session are: no session opened, no gate, no task, no progress display.
C10_EmptyDoesNothing ==
    (entry = "download_all" /\ GivenCount = 0) => Untouched

\* the distinct urls of the urls argument as passed
GivenUrls ==
    IF given.kind = "dict" THEN DOMAIN given.map
    ELSE {given.list[i] : i \in DOMAIN given.list}

Dispatched == pc \in {"gather", "unwind"}

\* C11: with show_progress on and show_sub_progress not set (download_all),
\* every transfer is given show_progress False when the batch has 5 or more
\* entries and True when it has 1 to 4; the overall bar's total is the number
\* of normalized entries.
C11_DefaultSubProgress ==
    (entry = "download_all" /\ Truthy(show_progress) /\ Dispatched) =>
        /\ \A u \in Entries : tshow[u] = IF Total >= 5 THEN "False" ELSE "True"
        /\ pbar.total = Cardinality(GivenUrls)
        /\ pbar.total = Total

\* C11 witness: a batch of 5 is dispatched with the per-file flag off
C11_Witness ==
    /\ entry = "download_all"
    /\ Truthy(show_progress)
    /\ pc = "gather"
    /\ Total = 5
    /\ pbar.total = 5
    /\ \A u \in Entries : tshow[u] = "False"
    /\ \E u \in Entries : tpc[u] = "get"

\* C12: a show_sub_progress the caller set is the one the transfers get, for
\* every batch size: the progress policy never changes a flag that is set.
C12_ExplicitSubProgressKept ==
    [][(Truthy(show_progress) /\ show_sub_progress # "None")
           => show_sub_progress' = show_sub_progress]_vars

\* the transfers handed to gather
Tasks == {u \in Urls : tpc[u] # "idle"}

\* C13: download_all of a list with a shared destination (a directory or
\* None) gives a mapping with exactly one entry per distinct url of the list,
\* each value that destination; one transfer is dispatched per entry.
C13_Normalization ==
    (entry = "download_all" /\ given.kind = "list" /\ path \in {"None", "dir"}
        /\ pc # "call") =>
        /\ urls.kind = "dict"
        /\ DOMAIN urls.map = GivenUrls
        /\ Total = Cardinality(GivenUrls)
        /\ \A u \in DOMAIN urls.map : urls.map[u] = path
        /\ Dispatched => Tasks = DOMAIN urls.map

\* C13 witness: a list that repeats its url, into a directory, is dispatched
\* as one transfer
C13_Witness ==
    /\ entry = "download_all"
    /\ given.kind = "list"
    /\ Len(given.list) = 2
    /\ given.list[1] = given.list[2]
    /\ path = "dir"
    /\ pc = "gather"
    /\ Tasks = {1}
    /\ urls.map[1] = "dir"

\* C14: a download_one with progress that returns has written the chunks it
\* received, in order, to a file it closed; each chunk is non-empty and at
\* most CHUNK_SIZE bytes; the one byte bar counts the size of the file.
C14_FileIsBody ==
    (entry = "download_one" /\ Truthy(show_progress) /\ pc = "returned") =>
        /\ tpc[1] = "done"
        /\ file[1].state = "closed"
        /\ file[1].data = got[1]
        /\ \A i \in DOMAIN got[1] : got[1][i] \in 1 .. CHUNK_SIZE
        /\ tbar[1].n = SumSeq(file[1].data)

\* C14 witness: a body of a full and a short chunk has been downloaded
C14_Witness ==
    /\ entry = "download_one"
    /\ Truthy(show_progress)
    /\ pc = "returned"
    /\ file[1].data = <<CHUNK_SIZE, 1>>
    /\ tbar[1].n = CHUNK_SIZE + 1

\* C15: a download_one that fails raises to its caller; on that exit every
\* with-block it had entered (session of its own, response, byte bars, file)
\* is closed once, in reverse order of opening, and the file keeps what was
\* written to it.
C15_FailureUnwinds ==
    [][(entry = "download_one" /\ tpc[1] # "failed" /\ tpc'[1] = "failed") =>
          /\ pc' = "raised"
          /\ closed[1] = <<>>
          /\ closed'[1] = Reverse(tframes[1])
          /\ tframes'[1] = <<>>
          /\ sClosed'[OwnSession(1)] = sOpened'[OwnSession(1)]
          /\ file'[1].data = file[1].data
          /\ file'[1].state = IF file[1].state = "absent" THEN "absent" ELSE "closed"
      ]_vars

\* C15 witness: a download_one with its own session and a byte bar failed
\* after a chunk was written
C15_Witness ==
    /\ entry = "download_one"
    /\ pc = "raised"
    /\ tpc[1] = "failed"
    /\ closed[1] = <<FileRes, PbarRes, ResponseRes, OwnSession(1)>>
    /\ file[1].state = "closed"
    /\ file[1].data # <<>>

\* C16: a transfer of a batch issues its request, opens its destination and
\* reads and writes only while it holds a permit: nothing of it has happened
\* while it waits, nothing of it is open once it is terminal, every terminal
\* transfer has given its permit back once, and all permits are free when the
\* gather is over.
C16_PermitHeld ==
    entry # "download_one" =>
        /\ \A u \in Urls :
              /\ tpc[u] \in {"idle", "waiting"} =>
                    /\ tframes[u] = <<>> /\ closed[u] = <<>>
                    /\ got[u] = <<>> /\ file[u] = NoFile /\ tbar[u] = NoBar
              /\ Terminal(u) => tframes[u] = <<>> /\ file[u].state # "open"
        /\ Dispatched =>
              semaphore = max_concurrent - Cardinality(Tasks)
                          + Cardinality({u \in Tasks : tpc[u] = "waiting"})
                          + Cardinality({u \in Tasks : Terminal(u)})
        /\ (pc \in {"unwind", "returned"} /\ Tasks # {}) =>
              semaphore = max_concurrent

\* C16 witness: a batch larger than its gate is over, one transfer failed
\* and one succeeded, and the permits are back
C16_Witness ==
    /\ entry # "download_one"
    /\ pc = "returned"
    /\ Total > max_concurrent
    /\ \E u \in Tasks : tpc[u] = "failed"
    /\ \E u \in Tasks : tpc[u] = "done"
    /\ semaphore = max_concurrent

\* C17: in a batch with progress the overall bar counts exactly the
\* transfers that returned, which is at most the transfers that have given
\* their permit back, which is at most the number of entries.
C17_OverallCounter ==
    (entry # "download_one" /\ Truthy(show_progress) /\ pbar.state # "none") =>
        /\ pbar.n = Cardinality({u \in Tasks : tpc[u] = "done"})
        /\ pbar.n <= Cardinality({u \in Tasks : Terminal(u)})
        /\ Cardinality({u \in Tasks : Terminal(u)}) <= Total
        /\ \A u \in Tasks : InBody(u) \/ tpc[u] = "waiting" =>
              pbar.n <= Cardinality(Tasks \ {u})

\* C17 witness: two transfers ran at the same time and both are counted
C17_Witness ==
    /\ entry # "download_one"
    /\ Truthy(show_progress)
    /\ max_concurrent = 2
    /\ pbar.n = 2
    /\ \A u \in Tasks : tpc[u] = "done"

\* the byte bars that are open, over the transfers in S
RECURSIVE LiveBars(_)
LiveBars(S) ==
    IF S = {} THEN 0
    ELSE LET u == CHOOSE x \in S : TRUE
         IN  Count(tframes[u], PbarRes) + LiveBars(S \ {u})

\* C18: every stage of _download_one runs once and in order: with progress
\* requested, whatever Content-Length the response declares, at most one
\* session is opened, one response is obtained, one byte bar is made, and
\* once the bar is made the destination is opened and the body is read.
C18_StagesOnce ==
    \A u \in Urls :
        Truthy(tshow[u]) =>
            /\ sOpened[OwnSession(u)] <= 1
            /\ Count(tframes[u] \o closed[u], ResponseRes) <= 1
            /\ tbar[u].made <= 1
            /\ (HasResponse(u) /\ tbar[u].made = 1) => AtOpen(u)

\* C19: in a batch the open byte bars are at most max_concurrent, each in
\* the with-blocks of one running transfer; with show_sub_progress not set
\* the open bars, the overall one included, are at most 5.
C19_LiveBarsBounded ==
    entry # "download_one" =>
        /\ LiveBars(Urls) <= max_concurrent
        /\ \A u \in Urls : Count(tframes[u], PbarRes) <= 1
        /\ \A u \in Urls : Has(tframes[u], PbarRes) => InBody(u)
        /\ entry = "download_all" =>
              LiveBars(Urls) + (IF pbar.state = "live" THEN 1 ELSE 0) <= 5

\* C20: the byte bar of a transfer with progress reads the number of bytes
\* written to its file, at every await and after every exit.
C20_CounterIsFileSize ==
    \A u \in Urls :
        (Truthy(tshow[u]) /\ tbar[u].made >= 1) =>
            tbar[u].n = SumSeq(file[u].data)

====
